---- MODULE Spec2Model ----
(***************************************************************************)
(* The Menu state machine of @headlessui-react: the reducer (OpenMenu,     *)
(* CloseMenu, GoToItem, Search, ClearSearch, RegisterItem, UnregisterItem, *)
(* SetShouldClose), the event handlers of Menu, Menu.Button, Menu.Items    *)
(* and Menu.Item that dispatch into it, the animation-frame callbacks of   *)
(* the button and the type-ahead timer of the list; useMenuContext; and    *)
(* the cached feature test canUseIntersectionObserver.                     *)
(*                                                                         *)
(* Indexes are 0-based as in the source; At(items, i) reads items[i].      *)
(* Strings are sequences of one-character strings.                         *)
(***************************************************************************)
EXTENDS Integers, Sequences, FiniteSets

VARIABLES
  state,           \* StateDefinition: menuState, items, searchQuery, activeItemIndex, shouldClose
  disabled,        \* per Item component: its disabled prop, mirrored in dataRef.current.disabled
  shouldCloseProp, \* the shouldClose prop of <Menu>
  itemShouldClose, \* per Item component: the state.shouldClose its memoized handleClick closed over
  searchTimer,     \* a ClearSearch timeout is pending in searchDisposables
  frames,          \* the button's pending animation-frame callbacks, oldest first
  last,            \* the handler or dispatch that ran last
  hookResult,      \* what the last useMenuContext call did: <<>> before any call
  window,          \* the global environment: <<>> when window is undefined, else <<its features>>
  cachedCanUseIntersectionObserver, \* the module-level cache: <<>> is undefined, else <<boolean>>
  calls,           \* calls of canUseIntersectionObserver so far
  evaluations,     \* how many of them evaluated the environment
  answer           \* what the last call returned: <<>> before any call

vars == <<state, disabled, shouldCloseProp, itemShouldClose, searchTimer, frames, last,
          hookResult, window, cachedCanUseIntersectionObserver, calls, evaluations, answer>>

\* what the Menu's reducer and widgets never touch
hooks == <<hookResult, window, cachedCanUseIntersectionObserver, calls, evaluations, answer>>

----------------------------------------------------------------------------
(* Bounds *)

MaxQuery == 2   \* longest search buffer explored
MaxFrames == 1  \* most animation-frame callbacks pending at once
MaxMounted == 2 \* most Item components mounted at once under the widgets

----------------------------------------------------------------------------
(* Values *)

Open == "Open"
Closed == "Closed"

\* activeItemIndex: number | null
Null == -2

\* Focus, as used by the GoToItem action
FocusFirst == "First"
FocusPrevious == "Previous"
FocusNext == "Next"
FocusLast == "Last"
FocusSpecific == "Specific"
FocusNothing == "Nothing"
Directional == {FocusFirst, FocusPrevious, FocusNext, FocusLast, FocusNothing}

\* ids handed out by useId to the Item components
Ids == {"i1", "i2", "i3"}

\* textValue?: string -- absent when the item's element has no text
NoText == <<"undefined">>

\* The text content of each item's element, as the DOM holds it
TextContent(id) ==
  CASE id = "i1" -> <<"A", "b">>
    [] id = "i2" -> <<"a">>
    [] OTHER     -> NoText

\* String.prototype.toLowerCase, one character
LowerChar(c) ==
  CASE c = "A" -> "a"
    [] c = "B" -> "b"
    [] OTHER   -> c

toLowerCase(s) == [i \in 1..Len(s) |-> LowerChar(s[i])]

\* String.prototype.startsWith
startsWith(s, prefix) ==
  /\ Len(prefix) <= Len(s)
  /\ \A i \in 1..Len(prefix) : s[i] = prefix[i]

\* bag.current.textValue, set by the Item's effect from its element's text
textValue(id) ==
  IF TextContent(id) = NoText THEN NoText ELSE toLowerCase(TextContent(id))

\* the printable keys typed on the list
Chars == {"a", "b", "A"}
Space == " "

\* ShouldClose predicates: the default () => true and the consumer's
DefaultShouldClose == "default"
UserShouldClose == {"never"}
Undefined == "undefined"

\* Calling a ShouldClose predicate with an event
CallShouldClose(pred, event) ==
  CASE pred = "never" -> FALSE
    [] OTHER          -> TRUE

\* items[i], 0-based
At(items, i) == items[i + 1]

\* the indexes of an array
Indexes(items) == 0..(Len(items) - 1)

\* Array.prototype.findIndex: the lowest index whose element passes the test
\* (test[i] is the callback's answer for items[i]), or -1
findIndex(items, test) ==
  LET hits == {i \in Indexes(items) : test[i]}
  IN IF hits = {} THEN -1
     ELSE CHOOSE i \in hits : \A j \in hits : i <= j

\* items.slice().reverse().findIndex, mapped back to an index of items: the
\* highest index whose element passes, or -1
findLastIndex(items, test) ==
  LET hits == {i \in Indexes(items) : test[i]}
  IN IF hits = {} THEN -1
     ELSE CHOOSE i \in hits : \A j \in hits : i >= j

\* Array.prototype.indexOf on item objects
indexOf(items, item) ==
  findIndex(items, [i \in Indexes(items) |-> At(items, i) = item])

\* Array.prototype.splice(idx, 1)
splice(items, idx) ==
  [i \in 1..(Len(items) - 1) |-> IF i <= idx THEN items[i] ELSE items[i + 1]]

----------------------------------------------------------------------------
(* The reducer *)

\* item.dataRef.current.disabled
resolveDisabled(item) == disabled[item.dataRef]

\* calculateActiveIndex(action, resolvers) of utils/calculate-active-index:
\* the index a focus move lands on, skipping disabled items; a directional
\* move that finds no eligible item keeps the current index.
calculateActiveIndex(action, s) ==
  LET items == s.items
      currentActiveIndex == s.activeItemIndex
      activeIndex == IF currentActiveIndex = Null THEN -1 ELSE currentActiveIndex
      IsEnabled == [i \in Indexes(items) |-> ~resolveDisabled(At(items, i))]
      EnabledBefore ==
        [i \in Indexes(items) |->
           /\ ~(activeIndex # -1 /\ i >= activeIndex)
           /\ ~resolveDisabled(At(items, i))]
      EnabledAfter ==
        [i \in Indexes(items) |-> i > activeIndex /\ ~resolveDisabled(At(items, i))]
      HasId == [i \in Indexes(items) |-> At(items, i).id = action.id]
      nextActiveIndex ==
        CASE action.focus = FocusFirst    -> findIndex(items, IsEnabled)
          [] action.focus = FocusPrevious -> findLastIndex(items, EnabledBefore)
          [] action.focus = FocusNext     -> findIndex(items, EnabledAfter)
          [] action.focus = FocusLast     -> findLastIndex(items, IsEnabled)
          [] action.focus = FocusSpecific -> findIndex(items, HasId)
          [] OTHER                        -> Null
  IN IF Len(items) <= 0 THEN Null
     ELSE IF nextActiveIndex = -1 THEN currentActiveIndex
     ELSE nextActiveIndex

\* CloseMenu that forgets to clear the active index
CloseMenuKeepsActive(s) ==
  IF s.menuState = Closed THEN s
  ELSE [s EXCEPT !.menuState = Closed]

CloseMenu(s) ==
  IF s.menuState = Closed THEN s
  ELSE [s EXCEPT !.activeItemIndex = Null, !.menuState = Closed]

OpenMenu(s) ==
  IF s.menuState = Open THEN s
  ELSE [s EXCEPT !.menuState = Open]

\* GoToItem that returns the state as it is whenever the index does not move
GoToItemKeepsQuery(s, action) ==
  LET activeItemIndex == calculateActiveIndex(action, s)
  IN IF s.activeItemIndex = activeItemIndex THEN s
     ELSE [s EXCEPT !.searchQuery = <<>>, !.activeItemIndex = activeItemIndex]

GoToItem(s, action) ==
  LET activeItemIndex == calculateActiveIndex(action, s)
  IN IF s.searchQuery = <<>> /\ s.activeItemIndex = activeItemIndex THEN s
     ELSE [s EXCEPT !.searchQuery = <<>>, !.activeItemIndex = activeItemIndex]

\* Search that appends the typed value as it is
SearchKeepsCase(s, action) ==
  LET searchQuery == s.searchQuery \o action.value
      Matches ==
        [i \in Indexes(s.items) |->
           /\ textValue(At(s.items, i).dataRef) # NoText
           /\ startsWith(textValue(At(s.items, i).dataRef), searchQuery)
           /\ ~disabled[At(s.items, i).dataRef]]
      match == findIndex(s.items, Matches)
  IN IF match = -1 \/ match = s.activeItemIndex
     THEN [s EXCEPT !.searchQuery = searchQuery]
     ELSE [s EXCEPT !.searchQuery = searchQuery, !.activeItemIndex = match]

Search(s, action) ==
  LET searchQuery == s.searchQuery \o toLowerCase(action.value)
      Matches ==
        [i \in Indexes(s.items) |->
           /\ textValue(At(s.items, i).dataRef) # NoText
           /\ startsWith(textValue(At(s.items, i).dataRef), searchQuery)
           /\ ~disabled[At(s.items, i).dataRef]]
      match == findIndex(s.items, Matches)
  IN IF match = -1 \/ match = s.activeItemIndex
     THEN [s EXCEPT !.searchQuery = searchQuery]
     ELSE [s EXCEPT !.searchQuery = searchQuery, !.activeItemIndex = match]

ClearSearch(s) ==
  IF s.searchQuery = <<>> THEN s
  ELSE [s EXCEPT !.searchQuery = <<>>]

\* RegisterItem that puts the new item in front
RegisterItemPrepends(s, action) ==
  [s EXCEPT !.items = <<[id |-> action.id, dataRef |-> action.dataRef]>> \o s.items]

RegisterItem(s, action) ==
  [s EXCEPT !.items = Append(s.items, [id |-> action.id, dataRef |-> action.dataRef])]

\* UnregisterItem that keeps the numeric offset of the active index
UnregisterItemKeepsOffset(s, action) ==
  LET HasId == [i \in Indexes(s.items) |-> At(s.items, i).id = action.id]
      idx == findIndex(s.items, HasId)
      nextItems == IF idx # -1 THEN splice(s.items, idx) ELSE s.items
  IN [s EXCEPT
       !.items = nextItems,
       !.activeItemIndex =
         IF idx = s.activeItemIndex THEN Null
         ELSE IF s.activeItemIndex = Null THEN Null
         ELSE IF s.activeItemIndex < Len(nextItems) THEN s.activeItemIndex
         ELSE Null]

UnregisterItem(s, action) ==
  LET HasId == [i \in Indexes(s.items) |-> At(s.items, i).id = action.id]
      idx == findIndex(s.items, HasId)
      nextItems == IF idx # -1 THEN splice(s.items, idx) ELSE s.items
  IN [s EXCEPT
       !.items = nextItems,
       !.activeItemIndex =
         IF idx = s.activeItemIndex THEN Null
         ELSE IF s.activeItemIndex = Null THEN Null
         ELSE indexOf(nextItems, At(s.items, s.activeItemIndex))]

SetShouldClose(s, action) ==
  IF s.shouldClose = action.shouldClose THEN s
  ELSE [s EXCEPT !.shouldClose =
          IF action.shouldClose = Undefined THEN DefaultShouldClose
          ELSE action.shouldClose]

\* whether the reducer of action.type returns the very state object it was
\* given (return state), not a copy
returnsState(s, action) ==
  CASE action.type = "CloseMenu"      -> s.menuState = Closed
    [] action.type = "OpenMenu"       -> s.menuState = Open
    [] action.type = "GoToItem"       ->
         s.searchQuery = <<>> /\ s.activeItemIndex = calculateActiveIndex(action, s)
    [] action.type = "Search"         -> FALSE
    [] action.type = "ClearSearch"    -> s.searchQuery = <<>>
    [] action.type = "RegisterItem"   -> FALSE
    [] action.type = "UnregisterItem" -> FALSE
    [] action.type = "SetShouldClose" -> s.shouldClose = action.shouldClose

stateReducer(s, action) ==
  CASE action.type = "CloseMenu"      -> CloseMenu(s)
    [] action.type = "OpenMenu"       -> OpenMenu(s)
    [] action.type = "GoToItem"       -> GoToItem(s, action)
    [] action.type = "Search"         -> Search(s, action)
    [] action.type = "ClearSearch"    -> ClearSearch(s)
    [] action.type = "RegisterItem"   -> RegisterItem(s, action)
    [] action.type = "UnregisterItem" -> UnregisterItem(s, action)
    [] action.type = "SetShouldClose" -> SetShouldClose(s, action)

----------------------------------------------------------------------------
(* Construction: useReducer's initial state in Menu, with the shouldClose  *)
(* prop the consumer passed                                                *)

InitialState(prop) ==
  [ menuState       |-> Closed,
    items           |-> <<>>,
    searchQuery     |-> <<>>,
    activeItemIndex |-> Null,
    shouldClose     |-> IF prop = Undefined THEN DefaultShouldClose ELSE prop ]

Init ==
  /\ shouldCloseProp \in {Undefined} \cup UserShouldClose
  /\ state = InitialState(shouldCloseProp)
  /\ disabled = [id \in Ids |-> FALSE]
  /\ itemShouldClose = [id \in Ids |-> Undefined]
  /\ searchTimer = FALSE
  /\ frames = <<>>
  /\ last = "Menu"
  /\ hookResult = <<>>
  /\ window = <<>>
  /\ cachedCanUseIntersectionObserver = <<>>
  /\ calls = 0
  /\ evaluations = 0
  /\ answer = <<>>

Registered(id) == \E i \in 1..Len(state.items) : state.items[i].id = id

widgets == <<shouldCloseProp, itemShouldClose, searchTimer, frames>>

----------------------------------------------------------------------------
(* dispatch(action) on the pair useMenuContext() returns                   *)

DispatchOpenMenu ==
  /\ state' = stateReducer(state, [type |-> "OpenMenu"])
  /\ last' = "OpenMenu"
  /\ UNCHANGED <<disabled, widgets>>
  /\ UNCHANGED hooks

DispatchCloseMenu ==
  /\ state' = stateReducer(state, [type |-> "CloseMenu"])
  /\ last' = "CloseMenu"
  /\ UNCHANGED <<disabled, widgets>>
  /\ UNCHANGED hooks

DispatchGoToItem ==
  /\ \/ \E focus \in Directional :
          /\ state' = stateReducer(state, [type |-> "GoToItem", focus |-> focus])
          /\ last' = focus
     \/ \E id \in Ids :
          /\ state' = stateReducer(state,
                        [type |-> "GoToItem", focus |-> FocusSpecific, id |-> id])
          /\ last' = FocusSpecific
  /\ UNCHANGED <<disabled, widgets>>
  /\ UNCHANGED hooks

DispatchSearch ==
  /\ Len(state.searchQuery) < MaxQuery
  /\ \E c \in Chars :
       state' = stateReducer(state, [type |-> "Search", value |-> <<c>>])
  /\ last' = "Search"
  /\ UNCHANGED <<disabled, widgets>>
  /\ UNCHANGED hooks

DispatchClearSearch ==
  /\ state' = stateReducer(state, [type |-> "ClearSearch"])
  /\ last' = "ClearSearch"
  /\ UNCHANGED <<disabled, widgets>>
  /\ UNCHANGED hooks

\* ids come from useId, one per Item; dataRef.current.disabled is the
\* flag the Item holds when it registers
DispatchRegisterItem ==
  /\ \E id \in Ids, flag \in BOOLEAN :
       /\ ~Registered(id)
       /\ disabled' = [disabled EXCEPT ![id] = flag]
       /\ state' = stateReducer(state,
                     [type |-> "RegisterItem", id |-> id, dataRef |-> id])
  /\ last' = "RegisterItem"
  /\ UNCHANGED widgets
  /\ UNCHANGED hooks

\* where the item an UnregisterItem removes stands, relative to the active one
UnregisterCase(id) ==
  LET HasId == [i \in Indexes(state.items) |-> At(state.items, i).id = id]
      idx == findIndex(state.items, HasId)
  IN CASE idx = -1                               -> "UnregisterItem.none"
       [] state.activeItemIndex = Null           -> "UnregisterItem.idle"
       [] idx = state.activeItemIndex            -> "UnregisterItem.active"
       [] idx < state.activeItemIndex            -> "UnregisterItem.before"
       [] OTHER                                  -> "UnregisterItem.after"

DispatchUnregisterItem ==
  /\ \E id \in Ids :
       /\ state' = stateReducer(state, [type |-> "UnregisterItem", id |-> id])
       /\ disabled' = [disabled EXCEPT ![id] = FALSE]
       /\ last' = UnregisterCase(id)
  /\ UNCHANGED widgets
  /\ UNCHANGED hooks

\* Menu re-rendered with another shouldClose prop: its effect dispatches
\* SetShouldClose with the prop
MenuSetShouldClose ==
  /\ \E p \in {Undefined} \cup UserShouldClose :
       /\ p # shouldCloseProp
       /\ shouldCloseProp' = p
       /\ state' = stateReducer(state, [type |-> "SetShouldClose", shouldClose |-> p])
  /\ last' = "SetShouldClose"
  /\ UNCHANGED <<disabled, itemShouldClose, searchTimer, frames>>
  /\ UNCHANGED hooks

\* bag.current.disabled = disabled, on a registered item
SetDisabled ==
  /\ \E id \in Ids :
       /\ Registered(id)
       /\ disabled' = [disabled EXCEPT ![id] = ~disabled[id]]
  /\ last' = "SetDisabled"
  /\ UNCHANGED <<state, widgets>>
  /\ UNCHANGED hooks

----------------------------------------------------------------------------
(* Menu.Item *)

\* Items renders its element, and the Item elements in it, while visible
visible == state.menuState = Open

\* let active = ... state.items[state.activeItemIndex].id === id
active(id) ==
  /\ state.activeItemIndex # Null
  /\ At(state.items, state.activeItemIndex).id = id

\* mount: the first render memoizes handleClick over the state it saw, the
\* effects set bag.current and dispatch RegisterItem
ItemMount ==
  /\ Len(state.items) < MaxMounted
  /\ \E id \in Ids, flag \in BOOLEAN :
       /\ ~Registered(id)
       /\ disabled' = [disabled EXCEPT ![id] = flag]
       /\ itemShouldClose' = [itemShouldClose EXCEPT ![id] = state.shouldClose]
       /\ state' = stateReducer(state,
                     [type |-> "RegisterItem", id |-> id, dataRef |-> id])
  /\ last' = "render"
  /\ UNCHANGED <<shouldCloseProp, searchTimer, frames>>
  /\ UNCHANGED hooks

\* unmount: the effect's cleanup dispatches UnregisterItem
ItemUnmount ==
  /\ \E id \in Ids :
       /\ Registered(id)
       /\ state' = stateReducer(state, [type |-> "UnregisterItem", id |-> id])
       /\ disabled' = [disabled EXCEPT ![id] = FALSE]
       /\ itemShouldClose' = [itemShouldClose EXCEPT ![id] = Undefined]
  /\ last' = "render"
  /\ UNCHANGED <<shouldCloseProp, searchTimer, frames>>
  /\ UNCHANGED hooks

\* re-render with another disabled prop: handleClick's dependencies
\* [dispatch, state.buttonRef, disabled, onClick] changed, so it is made anew
\* over the current state
ItemSetDisabled ==
  /\ \E id \in Ids :
       /\ Registered(id)
       /\ disabled' = [disabled EXCEPT ![id] = ~disabled[id]]
       /\ itemShouldClose' = [itemShouldClose EXCEPT ![id] = state.shouldClose]
  /\ last' = "render"
  /\ UNCHANGED <<state, shouldCloseProp, searchTimer, frames>>
  /\ UNCHANGED hooks

\* re-render with another onClick prop (an inline function): handleClick is
\* made anew over the current state
ItemSetOnClick ==
  /\ \E id \in Ids :
       /\ Registered(id)
       /\ itemShouldClose[id] # state.shouldClose
       /\ itemShouldClose' = [itemShouldClose EXCEPT ![id] = state.shouldClose]
  /\ last' = "render"
  /\ UNCHANGED <<state, disabled, shouldCloseProp, searchTimer, frames>>
  /\ UNCHANGED hooks

\* handleClick of the item: state is the one the memoized callback closed over
ItemHandleClick(id) ==
  IF disabled[id] THEN state
  ELSE IF CallShouldClose(itemShouldClose[id], "click")
       THEN stateReducer(state, [type |-> "CloseMenu"])
       ELSE state

ItemClick ==
  /\ visible
  /\ \E id \in Ids :
       /\ Registered(id)
       /\ state' = ItemHandleClick(id)
  /\ last' = "Item.click"
  /\ UNCHANGED <<disabled, widgets>>
  /\ UNCHANGED hooks

ItemHandleFocus(id) ==
  IF disabled[id]
  THEN stateReducer(state, [type |-> "GoToItem", focus |-> FocusNothing])
  ELSE stateReducer(state, [type |-> "GoToItem", focus |-> FocusSpecific, id |-> id])

ItemFocus ==
  /\ visible
  /\ \E id \in Ids :
       /\ Registered(id)
       /\ state' = ItemHandleFocus(id)
  /\ last' = "Item.focus"
  /\ UNCHANGED <<disabled, widgets>>
  /\ UNCHANGED hooks

ItemHandleMove(id) ==
  IF disabled[id] THEN state
  ELSE IF active(id) THEN state
  ELSE stateReducer(state, [type |-> "GoToItem", focus |-> FocusSpecific, id |-> id])

ItemMove ==
  /\ visible
  /\ \E id \in Ids :
       /\ Registered(id)
       /\ state' = ItemHandleMove(id)
  /\ last' = "Item.move"
  /\ UNCHANGED <<disabled, widgets>>
  /\ UNCHANGED hooks

ItemHandleLeave(id) ==
  IF disabled[id] THEN state
  ELSE IF ~active(id) THEN state
  ELSE stateReducer(state, [type |-> "GoToItem", focus |-> FocusNothing])

ItemLeave ==
  /\ visible
  /\ \E id \in Ids :
       /\ Registered(id)
       /\ state' = ItemHandleLeave(id)
  /\ last' = "Item.leave"
  /\ UNCHANGED <<disabled, widgets>>
  /\ UNCHANGED hooks

----------------------------------------------------------------------------
(* Menu.Button *)

\* handleKeyDown of the button: OpenMenu now, GoToItem on the next frame
ButtonKeyDown ==
  /\ Len(frames) < MaxFrames
  /\ \E key \in {"Space", "Enter", "ArrowDown", "ArrowUp"} :
       /\ state' = stateReducer(state, [type |-> "OpenMenu"])
       /\ frames' = Append(frames, IF key = "ArrowUp" THEN FocusLast ELSE FocusFirst)
       /\ last' = "Button.keydown"
  /\ UNCHANGED <<disabled, shouldCloseProp, itemShouldClose, searchTimer>>
  /\ UNCHANGED hooks

\* the callback d.nextFrame queued
ButtonFrame ==
  /\ frames # <<>>
  /\ state' = stateReducer(state, [type |-> "GoToItem", focus |-> Head(frames)])
  /\ frames' = Tail(frames)
  /\ last' = "frame"
  /\ UNCHANGED <<disabled, shouldCloseProp, itemShouldClose, searchTimer>>
  /\ UNCHANGED hooks

\* handleClick that opens the menu and never closes it
ButtonHandleClickOnlyOpens(propsDisabled) ==
  IF propsDisabled THEN state
  ELSE IF state.menuState = Open THEN state
       ELSE stateReducer(state, [type |-> "OpenMenu"])

\* handleClick of the button
ButtonHandleClick(propsDisabled) ==
  IF propsDisabled THEN state
  ELSE IF state.menuState = Open
       THEN IF CallShouldClose(state.shouldClose, "click")
            THEN stateReducer(state, [type |-> "CloseMenu"])
            ELSE state
       ELSE stateReducer(state, [type |-> "OpenMenu"])

ButtonClick ==
  /\ \E propsDisabled \in BOOLEAN :
       /\ state' = ButtonHandleClick(propsDisabled)
       /\ last' = IF propsDisabled THEN "Button.click.disabled" ELSE "Button.click"
  /\ UNCHANGED <<disabled, widgets>>
  /\ UNCHANGED hooks

----------------------------------------------------------------------------
(* Menu: the window's mousedown listener, for a target outside the button  *)
(* and the items                                                           *)

MenuHandleMouseDown ==
  IF state.menuState # Open THEN state
  ELSE IF shouldCloseProp = Undefined \/ CallShouldClose(shouldCloseProp, "mousedown")
       THEN stateReducer(state, [type |-> "CloseMenu"])
       ELSE state

WindowMouseDown ==
  /\ state' = MenuHandleMouseDown
  /\ last' = "mousedown"
  /\ UNCHANGED <<disabled, widgets>>
  /\ UNCHANGED hooks

----------------------------------------------------------------------------
(* Menu.Items *)

ListKeys ==
  {"Space", "Enter", "ArrowDown", "ArrowUp", "Home", "PageUp", "End", "PageDown",
   "Escape", "Tab"} \cup Chars

\* event.key of a key of ListKeys
KeyValue(key) == IF key = "Space" THEN <<Space>> ELSE <<key>>

\* handleKeyDown whose Tab closes the menu
ItemsHandleKeyDownTabCloses(key) ==
  CASE key = "Space" /\ state.searchQuery # <<>> ->
         stateReducer(state, [type |-> "Search", value |-> KeyValue(key)])
    [] key \in {"Space", "Enter"} /\ ~(key = "Space" /\ state.searchQuery # <<>>) ->
         IF CallShouldClose(state.shouldClose, "keydown")
         THEN stateReducer(state, [type |-> "CloseMenu"])
         ELSE state
    [] key = "ArrowDown" ->
         stateReducer(state, [type |-> "GoToItem", focus |-> FocusNext])
    [] key = "ArrowUp" ->
         stateReducer(state, [type |-> "GoToItem", focus |-> FocusPrevious])
    [] key \in {"Home", "PageUp"} ->
         stateReducer(state, [type |-> "GoToItem", focus |-> FocusFirst])
    [] key \in {"End", "PageDown"} ->
         stateReducer(state, [type |-> "GoToItem", focus |-> FocusLast])
    [] key = "Escape" ->
         IF CallShouldClose(state.shouldClose, "keydown")
         THEN stateReducer(state, [type |-> "CloseMenu"])
         ELSE state
    [] key = "Tab" -> stateReducer(state, [type |-> "CloseMenu"])
    [] OTHER ->
         IF Len(KeyValue(key)) = 1
         THEN stateReducer(state, [type |-> "Search", value |-> KeyValue(key)])
         ELSE state

\* the state handleKeyDown of the list dispatches into
ItemsHandleKeyDown(key) ==
  CASE key = "Space" /\ state.searchQuery # <<>> ->
         stateReducer(state, [type |-> "Search", value |-> KeyValue(key)])
    [] key \in {"Space", "Enter"} /\ ~(key = "Space" /\ state.searchQuery # <<>>) ->
         IF CallShouldClose(state.shouldClose, "keydown")
         THEN stateReducer(state, [type |-> "CloseMenu"])
         ELSE state
    [] key = "ArrowDown" ->
         stateReducer(state, [type |-> "GoToItem", focus |-> FocusNext])
    [] key = "ArrowUp" ->
         stateReducer(state, [type |-> "GoToItem", focus |-> FocusPrevious])
    [] key \in {"Home", "PageUp"} ->
         stateReducer(state, [type |-> "GoToItem", focus |-> FocusFirst])
    [] key \in {"End", "PageDown"} ->
         stateReducer(state, [type |-> "GoToItem", focus |-> FocusLast])
    [] key = "Escape" ->
         IF CallShouldClose(state.shouldClose, "keydown")
         THEN stateReducer(state, [type |-> "CloseMenu"])
         ELSE state
    [] key = "Tab" -> state
    [] OTHER ->
         IF Len(KeyValue(key)) = 1
         THEN stateReducer(state, [type |-> "Search", value |-> KeyValue(key)])
         ELSE state

\* the case of handleKeyDown's switch a key takes
KeyCase(key) ==
  CASE key \in {"Home", "PageUp"}  -> "Home"
    [] key \in {"End", "PageDown"} -> "End"
    [] key \in Chars               -> "default"
    [] OTHER                       -> key

\* the timeout handleKeyDown leaves pending: every key disposes the pending
\* one, only the default branch sets a new one
ItemsTimerAfter(key) == key \in Chars

ItemsKeyDown ==
  /\ visible
  /\ \E key \in ListKeys :
       /\ (key \in Chars \cup {"Space"}) => Len(state.searchQuery) < MaxQuery
       /\ state' = ItemsHandleKeyDown(key)
       /\ searchTimer' = ItemsTimerAfter(key)
       /\ last' = KeyCase(key)
  /\ UNCHANGED <<disabled, shouldCloseProp, itemShouldClose, frames>>
  /\ UNCHANGED hooks

\* the timeout of searchDisposables fires after 350ms
SearchTimeout ==
  /\ searchTimer
  /\ state' = stateReducer(state, [type |-> "ClearSearch"])
  /\ searchTimer' = FALSE
  /\ last' = "timeout"
  /\ UNCHANGED <<disabled, shouldCloseProp, itemShouldClose, frames>>
  /\ UNCHANGED hooks

----------------------------------------------------------------------------
(* useMenuContext *)

\* Menu.name
MenuName == "Menu"

\* the names the widgets pass: [Menu.name, Button.name].join('.') and so on
Components == {"Menu.Button", "Menu.Items", "Menu.Item"}

\* useContext(MenuContext): <<>> is null, the default of createContext;
\* under a Menu it is the reducerBag [state, dispatch] the Provider was given
useContext(inside) ==
  IF inside THEN <<[state |-> state, dispatch |-> "dispatch"]>> ELSE <<>>

\* the message of the Error useMenuContext throws
MissingParent(component) ==
  <<"<", IF component = Undefined THEN "Unknown" ELSE component,
    " /> is missing a parent <", MenuName, " /> component.">>

\* useMenuContext that returns the null context instead of throwing
useMenuContextNoThrow(component, context) ==
  [thrown |-> <<>>, returned |-> context]

\* thrown is the message of the error raised, <<>> when none; returned is
\* the context handed back, <<>> when none
useMenuContext(component, context) ==
  IF context = <<>>
  THEN [thrown |-> MissingParent(component), returned |-> <<>>]
  ELSE [thrown |-> <<>>, returned |-> context]

\* a Button, Items or Item renders, or a consumer calls the hook without a
\* name, under a Menu or outside of any
UseMenuContext ==
  /\ \E component \in Components \cup {Undefined}, inside \in BOOLEAN :
       hookResult' = <<[component |-> component,
                        inside    |-> inside,
                        outcome   |-> useMenuContext(component, useContext(inside))]>>
  /\ last' = "useMenuContext"
  /\ UNCHANGED <<state, disabled, widgets>>
  /\ UNCHANGED <<window, cachedCanUseIntersectionObserver, calls, evaluations, answer>>

----------------------------------------------------------------------------
(* utils/intersection-observer *)

MaxCalls == 3

\* what a defined window may hold; boundingClientRect is looked up on
\* IntersectionObserverEntry.prototype
Features ==
  {f \in SUBSET {"IntersectionObserver", "IntersectionObserverEntry", "boundingClientRect"} :
     "boundingClientRect" \in f => "IntersectionObserverEntry" \in f}

Environments == {<<>>} \cup {<<f>> : f \in Features}

\* the right-hand side of ??: the && chain over the environment
Evaluate(w) ==
  /\ w # <<>>
  /\ "IntersectionObserver" \in w[1]
  /\ "IntersectionObserverEntry" \in w[1]
  /\ "boundingClientRect" \in w[1]

\* the feature test with || in the place of ??
canUseIntersectionObserverOr(cached, w) ==
  IF cached # <<>> /\ cached[1]
  THEN [value |-> cached[1], cached |-> cached, evaluated |-> FALSE]
  ELSE [value |-> Evaluate(w), cached |-> <<Evaluate(w)>>, evaluated |-> TRUE]

\* cached ?? (cached = ...): value is what the call returns, cached the
\* cache it leaves, evaluated whether the right-hand side ran
canUseIntersectionObserver(cached, w) ==
  IF cached # <<>>
  THEN [value |-> cached[1], cached |-> cached, evaluated |-> FALSE]
  ELSE [value |-> Evaluate(w), cached |-> <<Evaluate(w)>>, evaluated |-> TRUE]

CanUseIntersectionObserver ==
  /\ calls < MaxCalls
  /\ LET r == canUseIntersectionObserver(cachedCanUseIntersectionObserver, window)
     IN /\ cachedCanUseIntersectionObserver' = r.cached
        /\ answer' = <<r.value>>
        /\ evaluations' = IF r.evaluated THEN evaluations + 1 ELSE evaluations
  /\ calls' = calls + 1
  /\ last' = "canUseIntersectionObserver"
  /\ UNCHANGED <<state, disabled, widgets, hookResult, window>>

\* the environment changes under the module: a polyfill is installed or
\* removed, the module is used on the server and in a browser
EnvironmentChange ==
  /\ \E w \in Environments :
       /\ w # window
       /\ window' = w
  /\ last' = "environment"
  /\ UNCHANGED <<state, disabled, widgets, hookResult>>
  /\ UNCHANGED <<cachedCanUseIntersectionObserver, calls, evaluations, answer>>

----------------------------------------------------------------------------
Next ==
  \/ DispatchOpenMenu
  \/ DispatchCloseMenu
  \/ DispatchGoToItem
  \/ DispatchSearch
  \/ DispatchClearSearch
  \/ DispatchRegisterItem
  \/ DispatchUnregisterItem
  \/ MenuSetShouldClose
  \/ SetDisabled

Spec == Init /\ [][Next]_vars

\* the widgets: what users and the host framework make happen
NextUI ==
  \/ MenuSetShouldClose
  \/ WindowMouseDown
  \/ ButtonKeyDown
  \/ ButtonFrame
  \/ ButtonClick
  \/ ItemsKeyDown
  \/ SearchTimeout
  \/ ItemMount
  \/ ItemUnmount
  \/ ItemSetDisabled
  \/ ItemSetOnClick
  \/ ItemClick
  \/ ItemFocus
  \/ ItemMove
  \/ ItemLeave

SpecUI == Init /\ [][NextUI]_vars

\* the hook and the feature test, next to a menu that opens and closes
NextHooks ==
  \/ DispatchOpenMenu
  \/ DispatchCloseMenu
  \/ MenuSetShouldClose
  \/ UseMenuContext
  \/ CanUseIntersectionObserver
  \/ EnvironmentChange

SpecHooks == Init /\ [][NextHooks]_vars

----------------------------------------------------------------------------
(* Properties *)

EnabledIndexes(items) == {i \in Indexes(items) : ~disabled[At(items, i).dataRef]}
Lowest(S) == CHOOSE i \in S : \A j \in S : i <= j
Highest(S) == CHOOSE i \in S : \A j \in S : i >= j
IdsOf(items) == [i \in 1..Len(items) |-> items[i].id]

\* C1: in every reachable state activeItemIndex is null or the index of an
\* item that is in the item sequence and is not disabled.
C1_ActiveItemIsEligible ==
  state.activeItemIndex # Null =>
    /\ state.activeItemIndex \in Indexes(state.items)
    /\ ~disabled[At(state.items, state.activeItemIndex).dataRef]

\* the item sequence without its first item of the given id
WithoutFirst(items, id) ==
  LET at == {i \in 1..Len(items) : items[i].id = id}
  IN IF at = {} THEN items
     ELSE LET k == Lowest(at)
          IN SubSeq(items, 1, k - 1) \o SubSeq(items, k + 1, Len(items))

\* C2: UnregisterItem(id) removes exactly the first item of that id and keeps
\* the order of the others; the active index becomes null when the removed
\* item was the active one, and otherwise refers to the same item as before.
C2_UnregisterKeepsActiveItem ==
  \A id \in Ids :
    LET t == stateReducer(state, [type |-> "UnregisterItem", id |-> id])
        a == state.activeItemIndex
    IN /\ t.items = WithoutFirst(state.items, id)
       /\ IF a = Null THEN t.activeItemIndex = Null
          ELSE IF At(state.items, a).id = id THEN t.activeItemIndex = Null
          ELSE /\ t.activeItemIndex \in Indexes(t.items)
               /\ At(t.items, t.activeItemIndex) = At(state.items, a)

\* C2 happens: the item before the active one was unregistered and the item
\* that was active is still the active one, now first in the sequence
C2_Witness ==
  /\ last = "UnregisterItem.before"
  /\ Len(state.items) = 2
  /\ state.activeItemIndex = 0

C4_OpenCloseIdempotent ==
  LET opened == stateReducer(state, [type |-> "OpenMenu"])
      closed == stateReducer(state, [type |-> "CloseMenu"])
  IN /\ stateReducer(opened, [type |-> "OpenMenu"]) = opened
     /\ stateReducer(closed, [type |-> "CloseMenu"]) = closed
     /\ opened.menuState = Open
     /\ closed.menuState = Closed
     /\ closed.activeItemIndex = Null

\* an item's label begins with the buffer
LabelBegins(item, query) ==
  LET label == textValue(item.dataRef)
  IN /\ label # NoText
     /\ Len(query) <= Len(label)
     /\ SubSeq(label, 1, Len(query)) = query

\* C5: Search(value) appends the lower-cased value to the buffer; the active
\* index becomes the first non-disabled item whose label begins with the new
\* buffer, and is unchanged when there is none; no other field changes.
C5_SearchSelectsFirstMatch ==
  \A c \in Chars :
    LET t == stateReducer(state, [type |-> "Search", value |-> <<c>>])
        query == state.searchQuery \o <<LowerChar(c)>>
        hits == {i \in EnabledIndexes(state.items) : LabelBegins(At(state.items, i), query)}
    IN /\ t.searchQuery = query
       /\ t.activeItemIndex = IF hits = {} THEN state.activeItemIndex ELSE Lowest(hits)
       /\ t.activeItemIndex # state.activeItemIndex =>
            /\ ~disabled[At(t.items, t.activeItemIndex).dataRef]
            /\ textValue(At(t.items, t.activeItemIndex).dataRef) # NoText
       /\ t.items = state.items
       /\ t.menuState = state.menuState
       /\ t.shouldClose = state.shouldClose

\* C5 happens: "a" then "b" were searched and the match is the second item,
\* the first one's label being only "a"
C5_Witness ==
  /\ last = "Search"
  /\ state.searchQuery = <<"a", "b">>
  /\ IdsOf(state.items) = <<"i2", "i1">>
  /\ state.activeItemIndex = 1

\* what the state's current predicate answers for an event
Allowed(event) == CallShouldClose(state.shouldClose, event)

\* C6: after any key presses on the list, whenever the search buffer is not
\* empty a ClearSearch timer is pending, so the buffer empties after 350ms
\* without a key.
C6_BufferHasTimer == state.searchQuery # <<>> => searchTimer

\* a close-triggering interaction that led to t was gated by the predicate
Gated(t, event) ==
  IF Allowed(event)
  THEN t.menuState = Closed /\ t.activeItemIndex = Null
  ELSE /\ t.menuState = state.menuState
       /\ t.activeItemIndex = state.activeItemIndex
       /\ t.items = state.items

\* C7: on an open menu a button click, Escape and Enter on the list and a
\* click on a non-disabled item close the menu (with a null active index) if
\* and only if the close predicate returns true for the event, and otherwise
\* leave menuState, activeItemIndex and items as they were.
C7_CloseGatedByPredicate ==
  state.menuState = Open =>
    /\ Gated(ButtonHandleClick(FALSE), "click")
    /\ Gated(ItemsHandleKeyDown("Escape"), "keydown")
    /\ Gated(ItemsHandleKeyDown("Enter"), "keydown")
    /\ \A id \in Ids :
         Registered(id) /\ ~disabled[id] => Gated(ItemHandleClick(id), "click")

\* what a close-triggering interaction decided by the current predicate gives
DecidedNow(event) ==
  IF Allowed(event) THEN stateReducer(state, [type |-> "CloseMenu"]) ELSE state

\* C8: the state holds the predicate SetShouldClose was last given (the
\* always-true default when none), and every close-triggering interaction is
\* decided by that current predicate, never by an earlier one.
C8_CurrentPredicateDecides ==
  /\ state.shouldClose =
       IF shouldCloseProp = Undefined THEN DefaultShouldClose ELSE shouldCloseProp
  /\ state.menuState = Open => ButtonHandleClick(FALSE) = DecidedNow("click")
  /\ ItemsHandleKeyDown("Escape") = DecidedNow("keydown")
  /\ ItemsHandleKeyDown("Enter") = DecidedNow("keydown")
  /\ state.menuState = Open => MenuHandleMouseDown = DecidedNow("mousedown")
  /\ \A id \in Ids :
       Registered(id) /\ ~disabled[id] => ItemHandleClick(id) = DecidedNow("click")

\* where a deferred GoToItem of the button is meant to land
Landing(focus, items) ==
  IF EnabledIndexes(items) = {} THEN Null
  ELSE IF focus = FocusFirst THEN Lowest(EnabledIndexes(items))
  ELSE Highest(EnabledIndexes(items))

\* (last' names the handler a step ran: "frame" is ButtonFrame)
\* C9: once the frame callback a button key queued has run, the menu is Open
\* and the active item is the first non-disabled item (the last one after
\* ArrowUp).
C9_FrameLandsOnOpenMenu ==
  [][last' = "frame" =>
       /\ state'.menuState = Open
       /\ state'.activeItemIndex = Landing(Head(frames), state'.items)]_vars

\* the first two items are not disabled
FirstTwoEnabled ==
  /\ Len(state.items) >= 2
  /\ ~disabled[At(state.items, 0).dataRef]
  /\ ~disabled[At(state.items, 1).dataRef]

\* C10: with the default predicate and the first two items not disabled,
\* Enter on the button of a closed menu opens it and its frame callback makes
\* the active index 0; ArrowDown on the list then makes it 1; Escape then
\* closes the menu and makes the active index null.
C10_EndToEnd ==
  [][/\ (last' = "Button.keydown" /\ frames' = Append(frames, FocusFirst)) =>
          state'.menuState = Open
     /\ (last' = "frame" /\ Head(frames) = FocusFirst
           /\ state.menuState = Open /\ FirstTwoEnabled) =>
          state'.menuState = Open /\ state'.activeItemIndex = 0
     /\ (last' = "ArrowDown" /\ state.activeItemIndex = 0 /\ FirstTwoEnabled) =>
          state'.activeItemIndex = 1
     /\ (last' = "Escape"
           /\ state.menuState = Open /\ state.shouldClose = DefaultShouldClose) =>
          state'.menuState = Closed /\ state'.activeItemIndex = Null]_vars

\* C10 happens: Escape closed a menu whose two items are not disabled, under
\* the default predicate
C10_Witness ==
  /\ last = "Escape"
  /\ state.shouldClose = DefaultShouldClose
  /\ FirstTwoEnabled
  /\ state.menuState = Closed
  /\ state.activeItemIndex = Null

\* C11: on an open list whose search buffer is not empty, Enter and Space
\* both close the menu (which is when the highlighted item is clicked),
\* provided the close predicate returns true for the event.
C11_EnterSpaceActivate ==
  visible /\ state.searchQuery # <<>> /\ Allowed("keydown") =>
    /\ ItemsHandleKeyDown("Enter").menuState = Closed
    /\ ItemsHandleKeyDown("Space").menuState = Closed

\* C12: a click on the button opens a Closed menu whatever the predicate
\* answers, closes an Open one when the predicate allows it (and leaves it as
\* it is otherwise), changes nothing when the button is disabled, and under
\* the always-true predicate a second click gives back the menuState the
\* first click started from.
C12_ButtonClickToggles ==
  [][/\ last' = "Button.click.disabled" => state' = state
     /\ last' = "Button.click" =>
          /\ state.menuState = Closed => state' = [state EXCEPT !.menuState = Open]
          /\ state.menuState = Open /\ Allowed("click") =>
               state' = [state EXCEPT !.menuState = Closed, !.activeItemIndex = Null]
          /\ state.menuState = Open /\ ~Allowed("click") => state' = state
          /\ state.shouldClose = DefaultShouldClose =>
               (ButtonHandleClick(FALSE).menuState)' = state.menuState]_vars

\* C12 happens: a click on the button closed an open menu that had items
C12_Witness ==
  /\ last = "Button.click"
  /\ state.menuState = Closed
  /\ state.items # <<>>

\* C13: for an item of the open list: pointer move over it when it is not
\* disabled makes it the active item; pointer leave sets the active index to
\* null when it is the active item and changes nothing when it is not; focus
\* makes it active when it is not disabled and sets the active index to null
\* when it is; pointer move, pointer leave and click change nothing when it
\* is disabled.
C13_PointerAndFocus ==
  visible =>
    \A id \in Ids :
      Registered(id) =>
        /\ ~disabled[id] =>
             At(ItemHandleMove(id).items, ItemHandleMove(id).activeItemIndex).id = id
        /\ active(id) => ItemHandleLeave(id).activeItemIndex = Null
        /\ ~active(id) => ItemHandleLeave(id) = state
        /\ ~disabled[id] =>
             At(ItemHandleFocus(id).items, ItemHandleFocus(id).activeItemIndex).id = id
        /\ disabled[id] => ItemHandleFocus(id).activeItemIndex = Null
        /\ disabled[id] =>
             /\ ItemHandleMove(id) = state
             /\ ItemHandleLeave(id) = state
             /\ ItemHandleClick(id) = state

\* the non-disabled items a move in a direction may land on
Eligible(focus) ==
  {i \in EnabledIndexes(state.items) :
     \/ state.activeItemIndex = Null
     \/ IF focus = FocusNext THEN i > state.activeItemIndex
        ELSE i < state.activeItemIndex}

\* the item a move in a direction is to land on
Nearest(focus) ==
  IF focus = FocusNext THEN Lowest(Eligible(focus)) ELSE Highest(Eligible(focus))

\* C14: GoToItem Next (ArrowDown) lands on the nearest non-disabled item
\* after the active one and GoToItem Previous (ArrowUp) on the nearest one
\* before it; when there is none in that direction the active index is left
\* as it was; the resulting active item is never a disabled one.
C14_ArrowsSkipDisabled ==
  \A focus \in {FocusNext, FocusPrevious} :
    LET t == GoToItem(state, [type |-> "GoToItem", focus |-> focus])
    IN /\ Eligible(focus) # {} => t.activeItemIndex = Nearest(focus)
       /\ Eligible(focus) = {} => t.activeItemIndex = state.activeItemIndex
       /\ t.activeItemIndex # Null =>
            ~disabled[At(t.items, t.activeItemIndex).dataRef]

\* the actions GoToItem is dispatched with
GoToItemActions ==
  {[type |-> "GoToItem", focus |-> f] : f \in Directional}
    \cup {[type |-> "GoToItem", focus |-> FocusSpecific, id |-> id] : id \in Ids}

\* C15: the state after any GoToItem, whatever the focus and whether or not
\* the index moves, and after ClearSearch has an empty search buffer, and
\* ClearSearch changes no other field.
C15_BufferCleared ==
  /\ \A action \in GoToItemActions : GoToItem(state, action).searchQuery = <<>>
  /\ ClearSearch(state) = [state EXCEPT !.searchQuery = <<>>]
  /\ last \in Directional \cup {FocusSpecific, "ClearSearch"} =>
       state.searchQuery = <<>>

\* C15 happens: ClearSearch ran on an open menu and kept its active item
C15_Witness ==
  /\ last = "ClearSearch"
  /\ state.searchQuery = <<>>
  /\ state.menuState = Open
  /\ state.activeItemIndex # Null

\* C17: Tab on the list dispatches nothing: the state (menuState, items,
\* activeItemIndex, searchQuery, the close predicate) and the shouldClose
\* prop are what they were, and the menu is still Open.
C17_TabChangesNothing ==
  [][last' = "Tab" =>
       /\ state' = state
       /\ shouldCloseProp' = shouldCloseProp
       /\ state'.menuState = Open]_vars

\* C17 happens: Tab was pressed on a list with a search buffer and an active
\* item, and both are still there
C17_Witness ==
  /\ last = "Tab"
  /\ state.menuState = Open
  /\ state.searchQuery # <<>>
  /\ state.activeItemIndex # Null

\* t differs from the state in no field outside fields
OnlyChanges(t, fields) ==
  /\ DOMAIN t = DOMAIN state
  /\ \A f \in DOMAIN state \ fields : t[f] = state[f]

\* the predicates SetShouldClose is dispatched with
Predicates == {Undefined, DefaultShouldClose} \cup UserShouldClose

\* C18: every reducer transition changes its own fields only (OpenMenu
\* menuState; CloseMenu menuState and activeItemIndex; GoToItem
\* activeItemIndex and searchQuery; Search searchQuery and activeItemIndex;
\* ClearSearch searchQuery; RegisterItem appends the new item at the end of
\* items and nothing else; UnregisterItem items and activeItemIndex;
\* SetShouldClose the predicate), and returns the state it was given when
\* there is nothing to do: OpenMenu when Open, CloseMenu when Closed,
\* ClearSearch on an empty buffer, GoToItem on an empty buffer with an
\* unchanged index, SetShouldClose with the predicate the state holds.
C18_FrameConditions ==
  /\ OnlyChanges(OpenMenu(state), {"menuState"})
  /\ OnlyChanges(CloseMenu(state), {"menuState", "activeItemIndex"})
  /\ \A action \in GoToItemActions :
       OnlyChanges(GoToItem(state, action), {"activeItemIndex", "searchQuery"})
  /\ \A c \in Chars \cup {Space} :
       OnlyChanges(Search(state, [type |-> "Search", value |-> <<c>>]),
                   {"searchQuery", "activeItemIndex"})
  /\ OnlyChanges(ClearSearch(state), {"searchQuery"})
  /\ \A id \in Ids :
       RegisterItem(state, [type |-> "RegisterItem", id |-> id, dataRef |-> id])
         = [state EXCEPT !.items = Append(state.items, [id |-> id, dataRef |-> id])]
  /\ \A id \in Ids :
       OnlyChanges(UnregisterItem(state, [type |-> "UnregisterItem", id |-> id]),
                   {"items", "activeItemIndex"})
  /\ \A p \in Predicates :
       OnlyChanges(SetShouldClose(state, [type |-> "SetShouldClose", shouldClose |-> p]),
                   {"shouldClose"})
  /\ \A action \in {[type |-> "OpenMenu"], [type |-> "CloseMenu"], [type |-> "ClearSearch"]}
                     \cup GoToItemActions
                     \cup {[type |-> "SetShouldClose", shouldClose |-> p] : p \in Predicates} :
       LET nothingToDo ==
             CASE action.type = "OpenMenu"       -> state.menuState = Open
               [] action.type = "CloseMenu"      -> state.menuState = Closed
               [] action.type = "ClearSearch"    -> state.searchQuery = <<>>
               [] action.type = "GoToItem"       ->
                    /\ state.searchQuery = <<>>
                    /\ calculateActiveIndex(action, state) = state.activeItemIndex
               [] action.type = "SetShouldClose" -> action.shouldClose = state.shouldClose
       IN nothingToDo =>
            /\ returnsState(state, action)
            /\ stateReducer(state, action) = state

\* C18 happens: RegisterItem appended a second item to a menu that had an
\* active item and a search buffer, and both are as they were
C18_Witness ==
  /\ last = "RegisterItem"
  /\ Len(state.items) = 2
  /\ state.activeItemIndex = 0
  /\ state.searchQuery # <<>>
  /\ state.menuState = Open

\* C19: under every interleaving of button, list and item events, frame
\* callbacks, search timeouts and item mounts and unmounts, a Closed menu
\* has a null active index.
C19_ClosedHasNoActiveItem ==
  state.menuState = Closed => state.activeItemIndex = Null

\* C16: a Button, Items or Item, or a bare useMenuContext call, with no Menu
\* above it raises an error whose message names the component (Unknown when
\* no name was given) and the missing parent Menu, and returns nothing;
\* under a Menu it returns the Menu's state and dispatch pair and raises
\* nothing.
C16_MissingParentRaises ==
  /\ \A component \in Components \cup {Undefined} :
       /\ useMenuContext(component, useContext(FALSE)).thrown =
            <<"<", IF component = Undefined THEN "Unknown" ELSE component,
              " /> is missing a parent <", "Menu", " /> component.">>
       /\ useMenuContext(component, useContext(FALSE)).returned = <<>>
       /\ useMenuContext(component, useContext(TRUE)).thrown = <<>>
       /\ useMenuContext(component, useContext(TRUE)).returned =
            <<[state |-> state, dispatch |-> "dispatch"]>>
  /\ hookResult # <<>> =>
       IF hookResult[1].inside
       THEN /\ hookResult[1].outcome.thrown = <<>>
            /\ hookResult[1].outcome.returned # <<>>
       ELSE /\ hookResult[1].outcome.returned = <<>>
            /\ hookResult[1].outcome.thrown # <<>>
            /\ hookResult[1].component \in Components =>
                 hookResult[1].outcome.thrown[2] = hookResult[1].component

\* C16 happens: a Menu.Item rendered outside of any Menu and the hook threw
C16_Witness ==
  /\ last = "useMenuContext"
  /\ hookResult # <<>>
  /\ hookResult[1].component = "Menu.Item"
  /\ ~hookResult[1].inside
  /\ hookResult[1].outcome.thrown # <<>>

\* C20: canUseIntersectionObserver evaluates the environment at most once:
\* the call that finds the cache undefined evaluates the environment, caches
\* exactly that answer, true or false, and returns it; once a value is
\* cached it never changes and every later call returns it without
\* evaluating, whatever the environment has become.
C20_EvaluatedAtMostOnce ==
  [][/\ evaluations' <= 1
     /\ cachedCanUseIntersectionObserver # <<>> =>
          /\ cachedCanUseIntersectionObserver' = cachedCanUseIntersectionObserver
          /\ evaluations' = evaluations
     /\ calls' # calls =>
          /\ answer' = cachedCanUseIntersectionObserver'
          /\ cachedCanUseIntersectionObserver = <<>> =>
               /\ answer' = <<Evaluate(window)>>
               /\ evaluations' = evaluations + 1]_vars

\* C20 happens: a false answer was cached, the environment has since gained
\* every feature, and a later call still returned false
C20_Witness ==
  /\ last = "canUseIntersectionObserver"
  /\ calls >= 2
  /\ cachedCanUseIntersectionObserver = <<FALSE>>
  /\ answer = <<FALSE>>
  /\ Evaluate(window)
  /\ evaluations = 1

====
